---- MODULE Spec2Model ----
(***************************************************************************)
(* KonomiTV re-encode task engine: TSReplaceEncodingTask.execute() and     *)
(* cancel() running as coroutines of one asyncio event loop, together with *)
(* the tsreplace subprocess, the stdout/stderr reader tasks and the        *)
(* periodic progress task of an attempt.                                   *)
(*                                                                         *)
(* One action is one run of a coroutine between two points at which it     *)
(* really suspends (a pending await): the event loop is single-threaded    *)
(* and cooperative, so everything between two suspensions is atomic.       *)
(* Awaits that never suspend (an uncontended asyncio.Lock, a coroutine     *)
(* without a pending await in it) are part of the surrounding action.      *)
(*                                                                         *)
(* progress is kept in hundredths of a percent (100.0 % = 10000).          *)
(*                                                                         *)
(* Beside the engine (Spec, LiveSpec) the module has the error policy      *)
(* applied to one error text (PolicySpec), the file tracker under          *)
(* concurrent jobs (TrackerSpec), the router's registry, delete API and    *)
(* multiplexed progress feed (RouterSpec, BroadcastSpec) and the per-task  *)
(* progress feed of the engine's task (SocketSpec, LiveSocketSpec), and    *)
(* the post-processing of an attempt step by step (PostSpec). The          *)
(* variables of a part that a specification does not run keep their        *)
(* initial values.                                                         *)
(***************************************************************************)
EXTENDS Integers, Sequences, FiniteSets, TLC

\* ------------------------------------------------------------------ bounds

\* invocations of cancel() on the task
MaxCancels == 1
\* output lines of the subprocess read per attempt (stdout and stderr together)
MaxLines == 2

\* key phrases in one error text
MaxPhrases == 2
\* largest retry_count with which a backoff delay is computed
MaxRetryIndex == 6
\* jobs submitted to the router
MaxJobs == 2
\* subscribers of the multiplexed progress feed connected at one time
MaxConnections == 1

\* ------------------------------------------------------- program constants

\* EncodingTask.max_retry_count (default)
max_retry_count == 3

\* progress values written by the code
PROGRESS_INITIAL == 100
PROGRESS_DONE == 10000
PROGRESS_TIME_CAP == 9500

RETRYABLE_CATEGORIES ==
    {"RESOURCE", "NETWORK", "ENCODER", "PROCESS", "STREAM_CHANGE", "VCEENCC_PARAM", "FFMPEG_STREAM"}

\* ERROR_PATTERNS in dict (insertion) order: the order _categorizeError tries them in
ERROR_PATTERNS ==
    <<"FILE_ACCESS", "ENCODER", "RESOURCE", "PROCESS", "STREAM_CHANGE", "VCEENCC_PARAM", "FFMPEG_STREAM">>

TerminalStatus == {"completed", "failed", "cancelled"}

output_file_path == "out.ts"

\* ------------------------------------------------------------------ inputs

\* An error text is abstracted to the set of ERROR_PATTERNS categories one of
\* whose patterns matches it, plus whether it contains 'PMT' or 'version'
\* (the substring test of _executeEncoding that appends a suffix to the message).
StderrTexts ==
    { [pats |-> {"RESOURCE"}, pmt |-> FALSE],
      [pats |-> {"FILE_ACCESS", "RESOURCE"}, pmt |-> FALSE],
      [pats |-> {"FFMPEG_STREAM"}, pmt |-> FALSE],
      [pats |-> {}, pmt |-> TRUE] }

\* percentages printed by the encoder in a progress line
LinePercents == {3000, 6000}

\* values the two time-based estimates can take (both are capped at 95.0)
TimeBased == {4500}

\* output lines: kind is what _updateProgressFromOutput recognises in the line
StdoutLines ==
    { [kind |-> "completion", pct |-> 0, err |-> [pats |-> {}, pmt |-> FALSE]],
      [kind |-> "other", pct |-> 0, err |-> [pats |-> {}, pmt |-> FALSE]] }
    \cup { [kind |-> "percent", pct |-> p, err |-> [pats |-> {}, pmt |-> FALSE]] : p \in LinePercents }

StderrLines ==
    { [kind |-> "other", pct |-> 0, err |-> e] : e \in StderrTexts }

\* exceptions create_subprocess_exec / buildEncoderCommand can raise, as the
\* categories str(e) matches (FileNotFoundError: 'No such file or directory')
SpawnErrors == { {}, {"FILE_ACCESS"} }

PrepareFailures == {"no_record", "no_input", "no_space"}

\* ------------------------------------------------------------------- state

VARIABLES
    \* EncodingTask fields
    status, progress, retry_count, error_message, started_at, completed_at,
    \* TSReplaceEncodingTask fields
    is_cancelled, is_finished, completion_detected, progress_init_done,
    \* execute(): where the coroutine is suspended
    pc,
    \* self._tsreplace_process and the tasks of the running attempt
    proc, returncode, stdout_task, stderr_task, progress_update_task,
    stderr_data, lines_read,
    \* cancel() coroutines
    cancel_pc,
    \* EncodingFileTracker._encoding_files
    encoding_files,
    \* notifications broadcast by the task
    notifications,
    \* observers of the run (history)
    attempts, spawns, failures, last_failure, all_retryable,
    cancel_in_sleep, lowered_by,
    \* the error policy applied to one error text: the text, the task's
    \* retry_count, the category found and the delay slept
    p_text, p_retry_count, p_category, p_delay, p_pc,
    \* the jobs known to the router: EncodingTask fields of each job and the
    \* position of its execute() coroutine
    t_status, t_progress, t_output_file_path, t_pc,
    \* TSReplaceRouter module state
    _running_tasks, _last_broadcast_states, active_connections, broadcast_task,
    \* the broadcast_progress_updates coroutines created and not yet returned
    broadcast_loops,
    \* locals of broadcast_progress_updates across its suspensions
    tasks_snapshot, tasks_to_broadcast, b_current,
    \* the multiplexed feed as its subscribers see it: the task ids of the
    \* last batch and the number of batches sent, modulo 2 (history)
    sent_batch, batches_sent,
    \* DeleteEncodingTaskAPI requests
    delete_pc,
    \* EncodingProgressWebSocket for the task of the engine: position of the
    \* handler, its locals, and the statuses of the messages sent (history)
    ws_pc, last_status, last_progress, current_status, current_progress, ws_sent,
    \* post-processing of one attempt whose transcoder exited with code 0:
    \* position of execute(), the job's delete_original flag, the files and
    \* the recording's row, the error a step logged, and the task's
    \* error_message, status and retry_count
    post_pc, delete_original, original_exists, encoded_moved, db_updated,
    post_error, post_error_message, post_status, post_retry_count,
    analysis_failed

taskVars == <<status, progress, retry_count, error_message, started_at, completed_at>>
flagVars == <<is_cancelled, is_finished, completion_detected, progress_init_done>>
procVars == <<proc, returncode, stdout_task, stderr_task, progress_update_task, stderr_data, lines_read>>
histVars == <<attempts, spawns, failures, last_failure, all_retryable, cancel_in_sleep, lowered_by>>
engineVars == <<taskVars, flagVars, pc, procVars, cancel_pc, encoding_files, notifications, histVars>>
policyVars == <<p_text, p_retry_count, p_category, p_delay, p_pc>>
jobVars == <<t_status, t_progress, t_output_file_path, t_pc>>
broadcastVars == <<_last_broadcast_states, active_connections, broadcast_task, broadcast_loops,
                   tasks_snapshot, tasks_to_broadcast, b_current, sent_batch, batches_sent>>
routerVars == <<jobVars, _running_tasks, broadcastVars, delete_pc>>
socketVars == <<ws_pc, last_status, last_progress, current_status, current_progress, ws_sent>>
postVars == <<post_pc, delete_original, original_exists, encoded_moved, db_updated,
              post_error, post_error_message, post_status, post_retry_count,
              analysis_failed>>
auxVars == <<policyVars, routerVars, socketVars, postVars>>
\* what the steps of the error policy leave alone
policyFrame == <<engineVars, routerVars, socketVars, postVars>>
\* what the steps of the router leave alone (the tracker is shared)
routerFrame == <<taskVars, flagVars, pc, procVars, cancel_pc, notifications, histVars,
                 policyVars, socketVars, postVars>>
\* what the steps of the per-task progress feed leave alone
socketFrame == <<engineVars, policyVars, routerVars, postVars>>
\* what the steps of post-processing leave alone
postFrame == <<engineVars, policyVars, routerVars, socketVars>>
vars == <<engineVars, auxVars>>

Cancels == 1..MaxCancels

JobIds == 1..MaxJobs

NoMessage == [src |-> "none", att |-> 0, pats |-> {}]

\* ----------------------------------------------------------- error policy

RECURSIVE FirstMatch(_, _)
FirstMatch(order, pats) ==
    IF order = <<>> THEN "UNKNOWN"
    ELSE IF Head(order) \in pats THEN Head(order)
    ELSE FirstMatch(Tail(order), pats)

\* _categorizeError: the first category in table order with a matching pattern
_categorizeError(msg) ==
    IF msg = NoMessage THEN "UNKNOWN" ELSE FirstMatch(ERROR_PATTERNS, msg.pats)

_isRetryable_NoLimit(error_category, count, max_retries) ==
    error_category \in RETRYABLE_CATEGORIES

_isRetryable_AnyCategory(error_category, count, max_retries) ==
    count < max_retries

_isRetryable_OffByOne(error_category, count, max_retries) ==
    IF count + 1 >= max_retries THEN FALSE
    ELSE error_category \in RETRYABLE_CATEGORIES

_isRetryable(error_category, count, max_retries) ==
    IF count >= max_retries THEN FALSE
    ELSE error_category \in RETRYABLE_CATEGORIES

\* ---- error texts as the classifier sees them
\* A text is the set of key phrases it contains and the case it is written
\* in; a pattern of ERROR_PATTERNS is the phrase it looks for, written in
\* mixed case in the table ('No such file or directory', 'Out of memory', ...).
PatternPhrases(category) ==
    CASE category = "FILE_ACCESS" -> {"no such file or directory", "permission denied"}
      [] category = "ENCODER" -> {"encoder not found"}
      [] category = "RESOURCE" -> {"out of memory"}
      [] category = "PROCESS" -> {"execution failed"}
      [] category = "STREAM_CHANGE" -> {"new pmt"}
      [] category = "VCEENCC_PARAM" -> {"invalid param"}
      [] category = "FFMPEG_STREAM" -> {"stream mapping failed"}
      [] OTHER -> {}

\* phrases of error texts that no pattern of the table looks for
OtherPhrases == {"connection timed out", "invalid configuration"}

Phrases ==
    UNION { PatternPhrases(ERROR_PATTERNS[i]) : i \in 1..Len(ERROR_PATTERNS) } \cup OtherPhrases

ErrorTexts ==
    { [phrases |-> ps, case |-> c] :
        ps \in { x \in SUBSET Phrases : Cardinality(x) <= MaxPhrases },
        c \in {"mixed", "upper", "lower"} }

\* str.lower()
Lower(text) == [text EXCEPT !.case = "lower"]

\* re.search(pattern, text): case-sensitive
Search(pattern, text) ==
    pattern.phrases \subseteq text.phrases /\ pattern.case = text.case

\* the categories one of whose patterns matches the lower-cased text
MatchingCategories(text) ==
    { ERROR_PATTERNS[i] : i \in
        { j \in 1..Len(ERROR_PATTERNS) :
            \E ph \in PatternPhrases(ERROR_PATTERNS[j]) :
                Search(Lower([phrases |-> {ph}, case |-> "mixed"]), Lower(text)) } }

\* _categorizeError applied to a text
CategorizeText(text) ==
    IF text.phrases = {} THEN "UNKNOWN"
    ELSE _categorizeError([src |-> "text", att |-> 0, pats |-> MatchingCategories(text)])

RETRY_DELAY_DEFAULT == 10
RETRY_DELAY_CAP == 300

base_delays ==
    [RESOURCE |-> 30, NETWORK |-> 10, ENCODER |-> 5, PROCESS |-> 15,
     STREAM_CHANGE |-> 5, VCEENCC_PARAM |-> 3, FFMPEG_STREAM |-> 3]

RECURSIVE Pow2(_)
Pow2(n) == IF n <= 0 THEN 1 ELSE 2 * Pow2(n - 1)

_getRetryDelay_NoCap(error_category, count) ==
    (IF error_category \in DOMAIN base_delays
     THEN base_delays[error_category] ELSE RETRY_DELAY_DEFAULT) * Pow2(count)

_getRetryDelay(error_category, count) ==
    LET base_delay == IF error_category \in DOMAIN base_delays
                      THEN base_delays[error_category]
                      ELSE RETRY_DELAY_DEFAULT
        delay == base_delay * Pow2(count)
    IN  IF delay < RETRY_DELAY_CAP THEN delay ELSE RETRY_DELAY_CAP

\* the message _executeEncoding records for a non-zero exit code: the return
\* code, the stderr text read so far and the suffixes derived from it
ExitMessage(att, data) ==
    [src |-> "exit", att |-> att,
     pats |-> data.pats \cup (IF data.pmt THEN {"STREAM_CHANGE"} ELSE {})]

\* 'Encoding execution failed: <e>': the prefix itself matches 'Execution.*failed'
ExecMessage(att, epats) ==
    [src |-> "exec", att |-> att, pats |-> epats \cup {"PROCESS"}]

\* 'Post-processing failed': matches no pattern
PostMessage(att) == [src |-> "post", att |-> att, pats |-> {}]

PrepareMessage(att, why) == [src |-> why, att |-> att, pats |-> {}]

\* ------------------------------------------------------------------ init

\* no error text is being classified
PolicyIdle ==
    /\ p_text = [phrases |-> {}, case |-> "lower"]
    /\ p_retry_count = 0
    /\ p_category = "none"
    /\ p_delay = 0
    /\ p_pc = "idle"

EngineInit ==
    /\ status = "queued"
    /\ progress = 0
    /\ retry_count = 0
    /\ error_message = NoMessage
    /\ started_at = FALSE
    /\ completed_at = FALSE
    /\ is_cancelled = FALSE
    /\ is_finished = FALSE
    /\ completion_detected = FALSE
    /\ progress_init_done = FALSE
    /\ pc = "idle"
    /\ proc = "none"
    /\ returncode = -1
    /\ stdout_task = "none"
    /\ stderr_task = "none"
    /\ progress_update_task = "none"
    /\ stderr_data = [pats |-> {}, pmt |-> FALSE]
    /\ lines_read = 0
    /\ cancel_pc = [c \in Cancels |-> "idle"]
    /\ encoding_files = {}
    /\ notifications = {}
    /\ attempts = 0
    /\ spawns = 0
    /\ failures = 0
    /\ last_failure = NoMessage
    /\ all_retryable = TRUE
    /\ cancel_in_sleep = FALSE
    /\ lowered_by = {}

\* no entry in _last_broadcast_states (dict.get returns None)
NoState == [status |-> "none", progress |-> -1]

NoInfo == [task_id |-> 0, status |-> "none", progress |-> -1]

NoPath == [stem |-> "none", codec |-> "none"]

\* the router module as imported: empty registry, no subscriber, no broadcaster
RouterIdle ==
    /\ t_status = [t \in JobIds |-> "none"]
    /\ t_progress = [t \in JobIds |-> 0]
    /\ t_output_file_path = [t \in JobIds |-> NoPath]
    /\ t_pc = [t \in JobIds |-> "none"]
    /\ _running_tasks = <<>>
    /\ _last_broadcast_states = [t \in JobIds |-> NoState]
    /\ active_connections = 0
    /\ broadcast_task = "none"
    /\ broadcast_loops = 0
    /\ tasks_snapshot = <<>>
    /\ tasks_to_broadcast = {}
    /\ b_current = NoInfo
    /\ sent_batch = {}
    /\ batches_sent = 0
    /\ delete_pc = [t \in JobIds |-> "idle"]

\* no subscriber of the per-task feed
SocketIdle ==
    /\ ws_pc = "none"
    /\ last_status = "none"
    /\ last_progress = -1
    /\ current_status = "none"
    /\ current_progress = -1
    /\ ws_sent = {}

\* an error text without any phrase
NoText == [phrases |-> {}, case |-> "lower"]

\* no post-processing is being followed
PostIdle ==
    /\ post_pc = "idle"
    /\ delete_original = FALSE
    /\ original_exists = TRUE
    /\ encoded_moved = FALSE
    /\ db_updated = FALSE
    /\ post_error = NoText
    /\ post_error_message = NoText
    /\ post_status = "none"
    /\ post_retry_count = 0
    /\ analysis_failed = FALSE

Init ==
    /\ EngineInit
    /\ PolicyIdle
    /\ RouterIdle
    /\ SocketIdle
    /\ PostIdle

\* ---------------------------------------------------------------- helpers

\* an assignment to encoding_task.progress by the code site `writer`
SetProgress(value, writer) ==
    /\ progress' = value
    /\ lowered_by' = IF value < progress THEN lowered_by \cup {writer} ELSE lowered_by

KeepProgress == UNCHANGED <<progress, lowered_by>>

\* EncodingFileTracker.addEncodingFile / removeEncodingFile (set add / discard)
addEncodingFile(files, path) == files \cup {path}

removeEncodingFile_Noop(files, path) == files

removeEncodingFile(files, path) == files \ {path}

\* EncodingFileTracker.isEncodingFile (set membership)
isEncodingFile(files, path) == path \in files

\* execute() returns: the finally block removes the output path from the tracker
ReturnFromExecute ==
    /\ pc' = "done"
    /\ encoding_files' = removeEncodingFile(encoding_files, output_file_path)

\* _shouldRetry: never after a cancel, else by category and retry count
_shouldRetry(msg) ==
    IF is_cancelled THEN FALSE
    ELSE _isRetryable(_categorizeError(msg), retry_count, max_retry_count)

\* progress written when the retry loop is left for the failed state
FailedProgress == 0

\* error_message after _handleEncodingFailure: str(Exception(msg)) is msg again
HandledMessage_Dropped(msg) == NoMessage

HandledMessage(msg) == msg

\* execute(), from _executeEncoding returning False to the next suspension:
\* _handleEncodingFailure, _shouldRetry, and either the backoff sleep of
\* _waitForRetry or the end of the loop (failed, cleanup, notification).
AttemptFailed(msg) ==
    /\ error_message' = HandledMessage(msg)
    /\ failures' = failures + 1
    /\ last_failure' = msg
    /\ all_retryable' = (all_retryable /\ _categorizeError(msg) \in RETRYABLE_CATEGORIES)
    /\ IF _shouldRetry(msg)
       THEN /\ retry_count' = retry_count + 1
            /\ pc' = "sleep"
            /\ KeepProgress
            /\ UNCHANGED <<status, completed_at, encoding_files>>
       ELSE /\ status' = "failed"
            /\ completed_at' = TRUE
            /\ SetProgress(FailedProgress, "failed")
            /\ UNCHANGED retry_count
            /\ IF ~is_cancelled
               THEN pc' = "notify_failed" /\ UNCHANGED encoding_files
               ELSE ReturnFromExecute

\* ---------------------------------------------------------------- execute

\* execute() up to the first suspension (the database read of _prepareEncoding)
ExecuteStart ==
    /\ pc = "idle"
    /\ started_at' = TRUE
    /\ status' = "processing"
    /\ encoding_files' = addEncodingFile(encoding_files, output_file_path)
    /\ attempts' = attempts + 1
    /\ pc' = "prepare"
    /\ KeepProgress
    /\ UNCHANGED <<retry_count, error_message, completed_at, flagVars, procVars,
                   cancel_pc, notifications, spawns, failures, last_failure,
                   all_retryable, cancel_in_sleep>>
    /\ UNCHANGED auxVars

\* _prepareEncoding succeeded: on to buildEncoderCommand / create_subprocess_exec
PrepareOk ==
    /\ pc = "prepare"
    /\ pc' = "spawn"
    /\ UNCHANGED <<taskVars, flagVars, procVars, cancel_pc, encoding_files,
                   notifications, histVars>>
    /\ UNCHANGED auxVars

\* _prepareEncoding failed (record, input file or disk space): execute returns False
PrepareFailed(why) ==
    /\ pc = "prepare"
    /\ error_message' = PrepareMessage(attempts, why)
    /\ all_retryable' = FALSE
    /\ ReturnFromExecute
    /\ KeepProgress
    /\ UNCHANGED <<status, retry_count, started_at, completed_at, flagVars, procVars,
                   cancel_pc, notifications, attempts, spawns, failures,
                   last_failure, cancel_in_sleep>>
    /\ UNCHANGED auxVars

\* create_subprocess_exec returned: the attempt's process, readers and timer exist
SpawnOk ==
    /\ pc = "spawn"
    /\ proc' = "running"
    /\ returncode' = -1
    /\ stdout_task' = "running"
    /\ stderr_task' = "running"
    /\ progress_update_task' = "created"
    /\ stderr_data' = [pats |-> {}, pmt |-> FALSE]
    /\ spawns' = spawns + 1
    /\ IF progress = 0 THEN SetProgress(PROGRESS_INITIAL, "spawn") ELSE KeepProgress
    /\ pc' = "wait"
    /\ lines_read' = 0
    /\ UNCHANGED <<status, retry_count, error_message, started_at, completed_at,
                   flagVars, cancel_pc, encoding_files, notifications, attempts,
                   failures, last_failure, all_retryable, cancel_in_sleep>>
    /\ UNCHANGED auxVars

\* building the command or spawning raised: caught in _executeEncoding
SpawnFailed(epats) ==
    /\ pc = "spawn"
    /\ AttemptFailed(ExecMessage(attempts, epats))
    /\ UNCHANGED <<started_at, flagVars, procVars, cancel_pc, notifications,
                   attempts, spawns, cancel_in_sleep>>
    /\ UNCHANGED auxVars

\* `await self._tsreplace_process.wait()` returns when the process has exited
ProcessWaitReturned_Early == TRUE

ProcessWaitReturned == proc = "exited"

\* process.wait() returned: the timer task is cancelled, the readers are awaited
WaitDone ==
    /\ pc = "wait"
    /\ ProcessWaitReturned
    /\ progress_update_task' = "cancelled"
    /\ pc' = "gather"
    /\ UNCHANGED <<taskVars, flagVars, proc, returncode, stdout_task, stderr_task,
                   stderr_data, lines_read, cancel_pc, encoding_files,
                   notifications, histVars>>
    /\ UNCHANGED auxVars

\* what `await asyncio.gather(stdout_task, stderr_task)` waits for
ReadersJoined_NoWait == TRUE

ReadersJoined == stdout_task = "done" /\ stderr_task = "done"

\* gather(stdout_task, stderr_task) returned with exit code 0: post-processing starts
GatherDoneSuccess ==
    /\ pc = "gather"
    /\ ReadersJoined
    /\ returncode = 0
    /\ SetProgress(PROGRESS_DONE, "exit0")
    /\ pc' = "post"
    /\ UNCHANGED <<status, retry_count, error_message, started_at, completed_at,
                   flagVars, procVars, cancel_pc, encoding_files, notifications,
                   attempts, spawns, failures, last_failure, all_retryable,
                   cancel_in_sleep>>
    /\ UNCHANGED auxVars

\* gather returned with a non-zero exit code
GatherDoneFailure ==
    /\ pc = "gather"
    /\ ReadersJoined
    /\ returncode # 0
    /\ AttemptFailed(ExitMessage(attempts, stderr_data))
    /\ UNCHANGED <<started_at, flagVars, procVars, cancel_pc, notifications,
                   attempts, spawns, cancel_in_sleep>>
    /\ UNCHANGED auxVars

\* _processEncodedFile returned True: the task is completed, _updateEncodedFlag starts
PostOk ==
    /\ pc = "post"
    /\ completed_at' = TRUE
    /\ status' = "completed"
    /\ SetProgress(PROGRESS_DONE, "completed")
    /\ is_finished' = TRUE
    /\ all_retryable' = FALSE
    /\ pc' = "flag"
    /\ UNCHANGED <<retry_count, error_message, started_at, is_cancelled,
                   completion_detected, progress_init_done, procVars, cancel_pc,
                   encoding_files, notifications, attempts, spawns, failures,
                   last_failure, cancel_in_sleep>>
    /\ UNCHANGED auxVars

\* _processEncodedFile returned False
PostFailed ==
    /\ pc = "post"
    /\ AttemptFailed(PostMessage(attempts))
    /\ UNCHANGED <<started_at, flagVars, procVars, cancel_pc, notifications,
                   attempts, spawns, cancel_in_sleep>>
    /\ UNCHANGED auxVars

\* _updateEncodedFlag returned (its exceptions are logged only)
FlagDone ==
    /\ pc = "flag"
    /\ pc' = "notify_complete"
    /\ UNCHANGED <<taskVars, flagVars, procVars, cancel_pc, encoding_files,
                   notifications, histVars>>
    /\ UNCHANGED auxVars

\* _sendEncodingCompleteNotification broadcast; execute returns True
NotifyCompleteDone ==
    /\ pc = "notify_complete"
    /\ notifications' = notifications \cup {"encoding_complete"}
    /\ ReturnFromExecute
    /\ UNCHANGED <<taskVars, flagVars, procVars, cancel_pc, histVars>>
    /\ UNCHANGED auxVars

\* _sendEncodingFailedNotification broadcast; execute returns False
NotifyFailedDone ==
    /\ pc = "notify_failed"
    /\ notifications' = notifications \cup {"encoding_failed"}
    /\ ReturnFromExecute
    /\ UNCHANGED <<taskVars, flagVars, procVars, cancel_pc, histVars>>
    /\ UNCHANGED auxVars

\* the backoff sleep of _waitForRetry ran to its end: the loop condition is
\* tested and the next attempt is prepared
SleepDone ==
    /\ pc = "sleep"
    /\ IF retry_count <= max_retry_count
       THEN /\ attempts' = attempts + 1
            /\ pc' = "prepare"
            /\ KeepProgress
            /\ UNCHANGED <<status, completed_at, encoding_files>>
       ELSE /\ status' = "failed"
            /\ completed_at' = TRUE
            /\ SetProgress(FailedProgress, "failed")
            /\ UNCHANGED attempts
            /\ IF ~is_cancelled
               THEN pc' = "notify_failed" /\ UNCHANGED encoding_files
               ELSE ReturnFromExecute
    /\ UNCHANGED <<retry_count, error_message, started_at, flagVars, procVars,
                   cancel_pc, notifications, spawns, failures, last_failure,
                   all_retryable, cancel_in_sleep>>
    /\ UNCHANGED auxVars

\* ------------------------------------------------------------- subprocess

\* process.returncode is None
Alive == proc \in {"running", "terminating", "killed"}

\* the subprocess ends by itself, with exit code 0 or not
ProcExit(rc) ==
    /\ proc = "running"
    /\ proc' = "exited"
    /\ returncode' = rc
    /\ UNCHANGED <<taskVars, flagVars, pc, stdout_task, stderr_task,
                   progress_update_task, stderr_data, lines_read, cancel_pc,
                   encoding_files, notifications, histVars>>
    /\ UNCHANGED auxVars

\* the subprocess ends on terminate() or kill()
ProcTerminated ==
    /\ proc \in {"terminating", "killed"}
    /\ proc' = "exited"
    /\ returncode' = 1
    /\ UNCHANGED <<taskVars, flagVars, pc, stdout_task, stderr_task,
                   progress_update_task, stderr_data, lines_read, cancel_pc,
                   encoding_files, notifications, histVars>>
    /\ UNCHANGED auxVars

\* ------------------------------------------------------ progress estimation

Min(a, b) == IF a < b THEN a ELSE b
Max(a, b) == IF a > b THEN a ELSE b

\* the time-based estimate of _updateProgressFromOutput overwrites only upwards
EstimateApplies_Always(estimated, current) == TRUE

EstimateApplies(estimated, current) == estimated > current

\* the condition under which periodic_progress_update writes its estimate
TimerApplies(time_based, current) ==
    (time_based > current + 100) \/ (current = 0)

\* _updateProgressFromOutput(line): est is the time-based estimate at that
\* moment, 0 when the 5 s conditions do not hold
UpdateProgressFromOutput(line, est) ==
    LET first == ~progress_init_done
        cur == IF first /\ progress = 0 THEN PROGRESS_INITIAL ELSE progress
        detected == IF first THEN FALSE ELSE completion_detected
    IN  /\ progress_init_done' = TRUE
        /\ IF line.kind = "completion" /\ ~detected
           THEN /\ SetProgress(PROGRESS_DONE, "completion")
                /\ completion_detected' = TRUE
           ELSE IF line.kind = "percent"
           THEN /\ SetProgress(Min(Max(line.pct, 0), PROGRESS_DONE), "line")
                /\ completion_detected' = detected
           ELSE /\ IF est > 0 /\ EstimateApplies(est, cur)
                   THEN SetProgress(est, "estimate")
                   ELSE SetProgress(cur, "init")
                /\ completion_detected' = detected

\* read_stdout: one line of the pipe (break when cancelled)
ReadStdout(line, est) ==
    /\ stdout_task = "running"
    /\ lines_read < MaxLines
    /\ lines_read' = lines_read + 1
    /\ IF is_cancelled
       THEN /\ stdout_task' = "done"
            /\ KeepProgress
            /\ UNCHANGED <<completion_detected, progress_init_done>>
       ELSE /\ UpdateProgressFromOutput(line, est)
            /\ UNCHANGED stdout_task
    /\ UNCHANGED <<status, retry_count, error_message, started_at, completed_at,
                   is_cancelled, is_finished, pc, proc, returncode, stderr_task,
                   progress_update_task, stderr_data, cancel_pc, encoding_files,
                   notifications, attempts, spawns, failures, last_failure,
                   all_retryable, cancel_in_sleep>>
    /\ UNCHANGED auxVars

\* read_stderr: one line of the pipe, kept in stderr_data (break when cancelled)
ReadStderr(line, est) ==
    /\ stderr_task = "running"
    /\ lines_read < MaxLines
    /\ lines_read' = lines_read + 1
    /\ IF is_cancelled
       THEN /\ stderr_task' = "done"
            /\ KeepProgress
            /\ UNCHANGED <<completion_detected, progress_init_done, stderr_data>>
       ELSE /\ stderr_data' = [pats |-> stderr_data.pats \cup line.err.pats,
                               pmt |-> stderr_data.pmt \/ line.err.pmt]
            /\ UpdateProgressFromOutput(line, est)
            /\ UNCHANGED stderr_task
    /\ UNCHANGED <<status, retry_count, error_message, started_at, completed_at,
                   is_cancelled, is_finished, pc, proc, returncode, stdout_task,
                   progress_update_task, cancel_pc, encoding_files,
                   notifications, attempts, spawns, failures, last_failure,
                   all_retryable, cancel_in_sleep>>
    /\ UNCHANGED auxVars

\* a reader reaches the end of its pipe after the process has exited
StdoutEOF ==
    /\ stdout_task = "running"
    /\ proc = "exited"
    /\ stdout_task' = "done"
    /\ UNCHANGED <<taskVars, flagVars, pc, proc, returncode, stderr_task,
                   progress_update_task, stderr_data, lines_read, cancel_pc,
                   encoding_files, notifications, histVars>>
    /\ UNCHANGED auxVars

StderrEOF ==
    /\ stderr_task = "running"
    /\ proc = "exited"
    /\ stderr_task' = "done"
    /\ UNCHANGED <<taskVars, flagVars, pc, proc, returncode, stdout_task,
                   progress_update_task, stderr_data, lines_read, cancel_pc,
                   encoding_files, notifications, histVars>>
    /\ UNCHANGED auxVars

\* periodic_progress_update: the loop condition
TimerContinues == Alive /\ ~is_cancelled

\* periodic_progress_update runs for the first time
TimerStart ==
    /\ progress_update_task = "created"
    /\ progress_update_task' = IF TimerContinues THEN "sleeping" ELSE "finished"
    /\ UNCHANGED <<taskVars, flagVars, pc, proc, returncode, stdout_task,
                   stderr_task, stderr_data, lines_read, cancel_pc,
                   encoding_files, notifications, histVars>>
    /\ UNCHANGED auxVars

\* periodic_progress_update wakes from its 0.5 s sleep; time_based is its
\* estimate, 0 when the 1 s update interval has not passed
TimerTick(time_based) ==
    /\ progress_update_task = "sleeping"
    /\ IF time_based > 0 /\ TimerApplies(time_based, progress)
       THEN SetProgress(Min(time_based, PROGRESS_TIME_CAP), "timer")
       ELSE KeepProgress
    /\ progress_update_task' = IF TimerContinues THEN "sleeping" ELSE "finished"
    /\ UNCHANGED <<status, retry_count, error_message, started_at, completed_at,
                   flagVars, pc, proc, returncode, stdout_task, stderr_task,
                   stderr_data, lines_read, cancel_pc, encoding_files,
                   notifications, attempts, spawns, failures, last_failure,
                   all_retryable, cancel_in_sleep>>
    /\ UNCHANGED auxVars

\* ------------------------------------------------------------------ cancel

\* cancel() up to its first suspension: the flag, the status, terminate() on a
\* live process; without a live process it runs to its end (cleanup, tracker)
CancelInvoke(c) ==
    /\ cancel_pc[c] = "idle"
    /\ \A d \in Cancels : d < c => cancel_pc[d] # "idle"
    /\ is_cancelled' = TRUE
    /\ status' = "cancelled"
    /\ cancel_in_sleep' = (cancel_in_sleep \/ pc = "sleep")
    /\ IF Alive
       THEN /\ proc' = IF proc = "running" THEN "terminating" ELSE proc
            /\ cancel_pc' = [cancel_pc EXCEPT ![c] = "wait_term"]
            /\ UNCHANGED encoding_files
       ELSE /\ cancel_pc' = [cancel_pc EXCEPT ![c] = "done"]
            /\ encoding_files' = removeEncodingFile(encoding_files, output_file_path)
            /\ UNCHANGED proc
    /\ KeepProgress
    /\ UNCHANGED <<retry_count, error_message, started_at, completed_at,
                   is_finished, completion_detected, progress_init_done, pc,
                   returncode, stdout_task, stderr_task, progress_update_task,
                   stderr_data, lines_read, notifications, attempts, spawns,
                   failures, last_failure, all_retryable>>
    /\ UNCHANGED auxVars

\* wait_for(process.wait(), 5.0) timed out: kill()
CancelKill(c) ==
    /\ cancel_pc[c] = "wait_term"
    /\ Alive
    /\ proc' = "killed"
    /\ cancel_pc' = [cancel_pc EXCEPT ![c] = "wait_kill"]
    /\ UNCHANGED <<taskVars, flagVars, pc, returncode, stdout_task, stderr_task,
                   progress_update_task, stderr_data, lines_read,
                   encoding_files, notifications, histVars>>
    /\ UNCHANGED auxVars

\* the awaited process has exited: _cleanupFailedEncoding, tracker removal
CancelFinish(c) ==
    /\ cancel_pc[c] \in {"wait_term", "wait_kill"}
    /\ proc = "exited"
    /\ cancel_pc' = [cancel_pc EXCEPT ![c] = "done"]
    /\ encoding_files' = removeEncodingFile(encoding_files, output_file_path)
    /\ UNCHANGED <<taskVars, flagVars, pc, procVars, notifications, histVars>>
    /\ UNCHANGED auxVars

\* ---------------------------------------------------------- specification

Execute ==
    \/ ExecuteStart
    \/ PrepareOk
    \/ \E why \in PrepareFailures : PrepareFailed(why)
    \/ SpawnOk
    \/ \E e \in SpawnErrors : SpawnFailed(e)
    \/ WaitDone
    \/ GatherDoneSuccess
    \/ GatherDoneFailure
    \/ PostOk
    \/ PostFailed
    \/ FlagDone
    \/ NotifyCompleteDone
    \/ NotifyFailedDone
    \/ SleepDone

Process ==
    \/ \E rc \in {0, 1} : ProcExit(rc)
    \/ ProcTerminated

Readers ==
    \/ \E line \in StdoutLines, est \in {0} \cup TimeBased : ReadStdout(line, est)
    \/ \E line \in StderrLines, est \in {0} \cup TimeBased : ReadStderr(line, est)
    \/ StdoutEOF
    \/ StderrEOF

Timer ==
    \/ TimerStart
    \/ \E t \in {0} \cup TimeBased : TimerTick(t)

Cancel ==
    \E c \in Cancels : CancelInvoke(c) \/ CancelKill(c) \/ CancelFinish(c)

Next == Execute \/ Process \/ Readers \/ Timer \/ Cancel

Spec == Init /\ [][Next]_vars

\* The event loop resumes a coroutine whose awaited future is done (database
\* reads, sleeps and broadcasts complete), the transcoder process ends, and a
\* reader sees the end of its pipe once the process has exited.
LiveSpec ==
    /\ Spec
    /\ WF_vars(Execute)
    /\ WF_vars(Process)
    /\ WF_vars(StdoutEOF)
    /\ WF_vars(StderrEOF)

\* ------------------------------------------------------------ error policy
\* One attempt failure handled by the retry policy: _shouldRetry classifies
\* the error text and counts the retry, _waitForRetry computes the delay and
\* sleeps it. The task's max_retry_count is MaxRetryIndex here.

PolicyInit ==
    /\ EngineInit
    /\ RouterIdle
    /\ SocketIdle
    /\ PostIdle
    /\ p_text \in ErrorTexts
    /\ p_retry_count \in 0..(MaxRetryIndex - 1)
    /\ p_category = "none"
    /\ p_delay = 0
    /\ p_pc = "failed"

\* _shouldRetry (not cancelled)
ShouldRetry ==
    /\ p_pc = "failed"
    /\ p_category' = CategorizeText(p_text)
    /\ IF _isRetryable(CategorizeText(p_text), p_retry_count, MaxRetryIndex)
       THEN p_retry_count' = p_retry_count + 1 /\ p_pc' = "retry"
       ELSE UNCHANGED p_retry_count /\ p_pc' = "give_up"
    /\ UNCHANGED <<p_text, p_delay>>
    /\ UNCHANGED policyFrame

\* _waitForRetry: the delay handed to asyncio.sleep
WaitForRetry ==
    /\ p_pc = "retry"
    /\ p_delay' = _getRetryDelay(CategorizeText(p_text), p_retry_count - 1)
    /\ p_pc' = "slept"
    /\ UNCHANGED <<p_text, p_retry_count, p_category>>
    /\ UNCHANGED policyFrame

PolicyNext == ShouldRetry \/ WaitForRetry

PolicySpec == PolicyInit /\ [][PolicyNext]_vars

\* ------------------------------------------------------------------ router
\* TSReplaceRouter: the registry of jobs, the multiplexed progress feed and the
\* delete API, with several jobs at once. A job is reduced to what the router
\* and the tracker see of it: status, progress, output path, and whether its
\* execute() coroutine has started and returned. The wait of cancel() for the
\* transcoder process to end is part of the engine above, not of this view.

RecordedFiles == {"rec1"}

Codecs == {"h264", "hevc"}

\* progress values a running job writes (hundredths of a percent)
ProgressInputs == {1004, 1006, 1008}

\* f"{stem}_{codec}{suffix}" next to the input file
_generate_output_file_path(input_file_path, codec) ==
    [stem |-> input_file_path, codec |-> codec]

\* round(progress, 1), in tenths of a percent; no input lies halfway
Round1(h) == IF h % 10 > 5 THEN (h \div 10) + 1 ELSE h \div 10

RECURSIVE Without(_, _)
Without(seq, t) ==
    IF seq = <<>> THEN <<>>
    ELSE IF Head(seq) = t THEN Without(Tail(seq), t)
    ELSE <<Head(seq)>> \o Without(Tail(seq), t)

Registered(t) == \E i \in 1..Len(_running_tasks) : _running_tasks[i] = t

\* the task id is generated per task: the next id not handed out yet
FreshId(t) == t_pc[t] = "none" /\ \A u \in JobIds : u < t => t_pc[u] # "none"

CreateTask(t, path) ==
    /\ t_status' = [t_status EXCEPT ![t] = "queued"]
    /\ t_progress' = [t_progress EXCEPT ![t] = 0]
    /\ t_output_file_path' = [t_output_file_path EXCEPT ![t] = path]
    /\ t_pc' = [t_pc EXCEPT ![t] = "created"]
    /\ _running_tasks' = Append(_running_tasks, t)

\* StartManualEncodingAPI: build the task, register it, start execute() in the
\* background
StartManualEncodingAPI(t, input_file_path, codec) ==
    /\ FreshId(t)
    /\ CreateTask(t, _generate_output_file_path(input_file_path, codec))
    /\ UNCHANGED <<broadcastVars, delete_pc, encoding_files>>
    /\ UNCHANGED routerFrame

\* register_auto_encoding_task: register a task built by the caller; start the
\* broadcaster if there is a subscriber and no broadcaster
\* the test made before a broadcaster is created: broadcast_task is None (or
\* done, which a broadcaster is only after it has set broadcast_task to None)
LoopNotRunning_Always == TRUE

LoopNotRunning_Never == FALSE

LoopNotRunning == broadcast_task = "none"

\* broadcast_task = asyncio.create_task(broadcast_progress_updates())
create_task ==
    /\ broadcast_task' = "waiting"
    /\ broadcast_loops' = broadcast_loops + 1

register_auto_encoding_task(t, path) ==
    /\ FreshId(t)
    /\ CreateTask(t, path)
    /\ IF LoopNotRunning /\ active_connections > 0
       THEN create_task
       ELSE UNCHANGED <<broadcast_task, broadcast_loops>>
    /\ UNCHANGED <<_last_broadcast_states, active_connections, tasks_snapshot,
                   tasks_to_broadcast, b_current, sent_batch, batches_sent,
                   delete_pc, encoding_files>>
    /\ UNCHANGED routerFrame

\* execute(), up to its first suspension: status and tracker entry
JobExecuteStart(t) ==
    /\ t_pc[t] = "created"
    /\ t_pc' = [t_pc EXCEPT ![t] = "running"]
    /\ t_status' = [t_status EXCEPT ![t] = "processing"]
    /\ encoding_files' = addEncodingFile(encoding_files, t_output_file_path[t])
    /\ UNCHANGED <<t_progress, t_output_file_path, _running_tasks, broadcastVars, delete_pc>>
    /\ UNCHANGED routerFrame

\* a progress value written while the job runs
JobProgress(t, value) ==
    /\ t_pc[t] = "running"
    /\ t_progress[t] # value
    /\ t_progress' = [t_progress EXCEPT ![t] = value]
    /\ UNCHANGED <<t_status, t_output_file_path, t_pc, _running_tasks, broadcastVars,
                   delete_pc, encoding_files>>
    /\ UNCHANGED routerFrame

cleanup_auto_encoding_task_Deleting(tasks, t) == Without(tasks, t)

\* cleanup_auto_encoding_task, and the finally block of execute_and_cleanup:
\* the finished task stays in the registry
cleanup_auto_encoding_task(tasks, t) == tasks

\* execute() returns: success, final failure, or the early return of a failed
\* preparation, which leaves status and progress as they are; the finally
\* block drops the tracker entry; then the caller's cleanup runs
JobExecuteReturn(t, outcome) ==
    /\ t_pc[t] = "running"
    /\ t_pc' = [t_pc EXCEPT ![t] = "returned"]
    /\ CASE outcome = "completed" ->
              /\ t_status' = [t_status EXCEPT ![t] = "completed"]
              /\ t_progress' = [t_progress EXCEPT ![t] = PROGRESS_DONE]
         [] outcome = "failed" ->
              /\ t_status' = [t_status EXCEPT ![t] = "failed"]
              /\ t_progress' = [t_progress EXCEPT ![t] = 0]
         [] OTHER -> UNCHANGED <<t_status, t_progress>>
    /\ encoding_files' = removeEncodingFile(encoding_files, t_output_file_path[t])
    /\ _running_tasks' = cleanup_auto_encoding_task(_running_tasks, t)
    /\ UNCHANGED <<t_output_file_path, broadcastVars, delete_pc>>
    /\ UNCHANGED routerFrame

\* CancelEncodingAPI: 404 for an unknown id, else cancel() of the task
CancelEncodingAPI(t) ==
    /\ Registered(t)
    /\ t_status' = [t_status EXCEPT ![t] = "cancelled"]
    /\ encoding_files' = removeEncodingFile(encoding_files, t_output_file_path[t])
    /\ UNCHANGED <<t_progress, t_output_file_path, t_pc, _running_tasks, broadcastVars, delete_pc>>
    /\ UNCHANGED routerFrame

\* DeleteEncodingTaskAPI up to the database read: a registered task that is
\* queued or processing is refused with 422
DeleteEncodingTaskAPI(t) ==
    /\ t_pc[t] # "none"
    /\ delete_pc[t] # "db"
    /\ delete_pc' = [delete_pc EXCEPT ![t] =
                        IF Registered(t) /\ t_status[t] \in {"queued", "processing"}
                        THEN "rejected" ELSE "db"]
    /\ UNCHANGED <<jobVars, _running_tasks, broadcastVars, encoding_files>>
    /\ UNCHANGED routerFrame

\* DeleteEncodingTaskAPI after the database delete: drop the task from the
\* registry and from the last-broadcast table
DeleteEncodingTaskAPI_Remove(t) ==
    /\ delete_pc[t] = "db"
    /\ delete_pc' = [delete_pc EXCEPT ![t] = "deleted"]
    /\ _running_tasks' = Without(_running_tasks, t)
    /\ _last_broadcast_states' = [_last_broadcast_states EXCEPT ![t] = NoState]
    /\ UNCHANGED <<jobVars, active_connections, broadcast_task, broadcast_loops,
                   tasks_snapshot, tasks_to_broadcast, b_current, sent_batch,
                   batches_sent, encoding_files>>
    /\ UNCHANGED routerFrame

\* encoding_progress_websocket_multiplexed: a subscriber connects; the
\* broadcaster is started if there is none
MultiplexedConnect ==
    /\ active_connections < MaxConnections
    /\ active_connections' = active_connections + 1
    /\ IF LoopNotRunning
       THEN create_task
       ELSE UNCHANGED <<broadcast_task, broadcast_loops>>
    /\ UNCHANGED <<jobVars, _running_tasks, _last_broadcast_states, tasks_snapshot,
                   tasks_to_broadcast, b_current, sent_batch, batches_sent,
                   delete_pc, encoding_files>>
    /\ UNCHANGED routerFrame

\* the subscriber goes away (ConnectionManager.disconnect)
MultiplexedDisconnect ==
    /\ active_connections > 0
    /\ active_connections' = active_connections - 1
    /\ UNCHANGED <<jobVars, _running_tasks, _last_broadcast_states, broadcast_task,
                   broadcast_loops, tasks_snapshot, tasks_to_broadcast, b_current,
                   sent_batch, batches_sent, delete_pc, encoding_files>>
    /\ UNCHANGED routerFrame

\* the comparison of broadcast_progress_updates: never broadcast, or another
\* status, or another progress after rounding to one decimal
Changed_ByDistance(t) ==
    LET last_state == _last_broadcast_states[t] IN
    \/ last_state = NoState
    \/ last_state.status # t_status[t]
    \/ t_progress[t] - 10 * last_state.progress >= 10
    \/ 10 * last_state.progress - t_progress[t] >= 10

Changed(t) ==
    LET last_state == _last_broadcast_states[t] IN
    \/ last_state = NoState
    \/ last_state.status # t_status[t]
    \/ last_state.progress # Round1(t_progress[t])

RECURSIVE SkipUnchanged(_)
SkipUnchanged(tasks) ==
    IF tasks = <<>> THEN <<>>
    ELSE IF Changed(Head(tasks)) THEN tasks
    ELSE SkipUnchanged(Tail(tasks))

\* the for loop of broadcast_progress_updates from the task list `tasks` on,
\* up to its next suspension: the title lookup for the next changed task, or,
\* at the end of the list, the broadcast of a non-empty batch and the sleep
BroadcastAdvance(tasks, batch) ==
    LET rest == SkipUnchanged(tasks) IN
    IF rest # <<>>
    THEN /\ broadcast_task' = "lookup"
         /\ b_current' = [task_id |-> Head(rest),
                          status |-> t_status[Head(rest)],
                          progress |-> Round1(t_progress[Head(rest)])]
         /\ tasks_snapshot' = Tail(rest)
         /\ tasks_to_broadcast' = batch
         /\ UNCHANGED <<sent_batch, batches_sent>>
    ELSE /\ broadcast_task' = "waiting"
         /\ b_current' = NoInfo
         /\ tasks_snapshot' = <<>>
         /\ tasks_to_broadcast' = {}
         /\ IF batch # {}
            THEN /\ sent_batch' = { info.task_id : info \in batch }
                 /\ batches_sent' = (batches_sent + 1) % 2
            ELSE UNCHANGED <<sent_batch, batches_sent>>

\* broadcast_progress_updates, one round of the while loop from its start (the
\* task was just created, or its sleep is over)
BroadcastTick ==
    /\ broadcast_task = "waiting"
    /\ IF active_connections = 0
       THEN /\ broadcast_task' = "none"
            /\ broadcast_loops' = broadcast_loops - 1
            /\ UNCHANGED <<tasks_snapshot, tasks_to_broadcast, b_current, sent_batch, batches_sent>>
       ELSE BroadcastAdvance(_running_tasks, {}) /\ UNCHANGED broadcast_loops
    /\ UNCHANGED <<jobVars, _running_tasks, _last_broadcast_states, active_connections,
                   delete_pc, encoding_files>>
    /\ UNCHANGED routerFrame

\* the title lookup returns: the task joins the batch with the values read
\* before the lookup, which also become its last-broadcast state
BroadcastLookupDone ==
    /\ broadcast_task = "lookup"
    /\ _last_broadcast_states' =
           [_last_broadcast_states EXCEPT ![b_current.task_id] =
               [status |-> b_current.status, progress |-> b_current.progress]]
    /\ BroadcastAdvance(tasks_snapshot, tasks_to_broadcast \cup {b_current})
    /\ UNCHANGED <<jobVars, _running_tasks, active_connections, broadcast_loops,
                   delete_pc, encoding_files>>
    /\ UNCHANGED routerFrame

\* the tracker under concurrent jobs: submissions of either codec, each job
\* started, ended in every way and cancelled
TrackerNext ==
    \E t \in JobIds :
        \/ \E f \in RecordedFiles, c \in Codecs : StartManualEncodingAPI(t, f, c)
        \/ JobExecuteStart(t)
        \/ \E outcome \in {"completed", "failed", "prepare_failed"} : JobExecuteReturn(t, outcome)
        \/ CancelEncodingAPI(t)

TrackerSpec == Init /\ [][TrackerNext]_vars

\* the registry and the delete API: jobs of one codec, submitted by hand or
\* registered by the automatic encoder, watched by the broadcaster
Jobs ==
    \E t \in JobIds :
        \/ \E f \in RecordedFiles : StartManualEncodingAPI(t, f, "h264")
        \/ \E f \in RecordedFiles :
               register_auto_encoding_task(t, _generate_output_file_path(f, "h264"))
        \/ JobExecuteStart(t)
        \/ \E outcome \in {"completed", "failed"} : JobExecuteReturn(t, outcome)
        \/ CancelEncodingAPI(t)

Delete ==
    \E t \in JobIds : DeleteEncodingTaskAPI(t) \/ DeleteEncodingTaskAPI_Remove(t)

Broadcast ==
    \/ MultiplexedConnect
    \/ MultiplexedDisconnect
    \/ BroadcastTick
    \/ BroadcastLookupDone

RouterNext == Jobs \/ Delete \/ Broadcast

RouterSpec == Init /\ [][RouterNext]_vars

\* the multiplexed feed: jobs of one codec, submitted by hand or registered by
\* the automatic encoder, that write progress and end, watched by the
\* broadcaster
FeedJobs ==
    \E t \in JobIds :
        \/ \E f \in RecordedFiles : StartManualEncodingAPI(t, f, "h264")
        \/ \E f \in RecordedFiles :
               register_auto_encoding_task(t, _generate_output_file_path(f, "h264"))
        \/ JobExecuteStart(t)
        \/ \E value \in ProgressInputs : JobProgress(t, value)
        \/ \E outcome \in {"completed", "failed"} : JobExecuteReturn(t, outcome)

BroadcastNext == FeedJobs \/ Broadcast

BroadcastSpec == Init /\ [][BroadcastNext]_vars

\* The event loop resumes the broadcaster when its 1 s sleep is over and when
\* the title lookup it awaits has returned.
LiveBroadcastSpec ==
    /\ BroadcastSpec
    /\ WF_vars(BroadcastTick)
    /\ WF_vars(BroadcastLookupDone)

\* ----------------------------------------------------------- per-task feed
\* EncodingProgressWebSocket for the task of the engine, which is in the
\* registry. The handler suspends in send_json and in the 0.5 s wait for a
\* client message; the client can go away at any time.

\* the rest of one round of the monitoring loop once the message, if any, is
\* sent: leave the loop on a terminal status, else wait for the client
SocketAfterSend(sent_status) ==
    ws_pc' = IF sent_status \in TerminalStatus THEN "closed" ELSE "receiving"

\* one round of the monitoring loop up to its suspension
SocketLoop ==
    /\ current_status' = status
    /\ current_progress' = progress
    /\ IF \/ status # last_status
          \/ progress - last_progress >= 10
          \/ last_progress - progress >= 10
          \/ last_progress = -1
       THEN /\ ws_pc' = "sending"
            /\ ws_sent' = ws_sent \cup {status}
       ELSE /\ SocketAfterSend(status)
            /\ UNCHANGED ws_sent

\* accept, find the task, send the initial status
SocketConnect ==
    /\ ws_pc = "none"
    /\ ws_pc' = "initial"
    /\ ws_sent' = ws_sent \cup {status}
    /\ UNCHANGED <<last_status, last_progress, current_status, current_progress>>
    /\ UNCHANGED socketFrame

\* the initial status is sent: first round of the loop
SocketInitialSent ==
    /\ ws_pc = "initial"
    /\ SocketLoop
    /\ UNCHANGED <<last_status, last_progress>>
    /\ UNCHANGED socketFrame

\* send_json returns: remember what was sent, then close or wait
SocketSent ==
    /\ ws_pc = "sending"
    /\ last_progress' = current_progress
    /\ last_status' = current_status
    /\ SocketAfterSend(current_status)
    /\ UNCHANGED <<current_status, current_progress, ws_sent>>
    /\ UNCHANGED socketFrame

\* the wait for a client message ends (timeout or ping): next round
SocketReceiveTimeout ==
    /\ ws_pc = "receiving"
    /\ SocketLoop
    /\ UNCHANGED <<last_status, last_progress>>
    /\ UNCHANGED socketFrame

\* the client goes away (WebSocketDisconnect)
SocketDisconnect ==
    /\ ws_pc \in {"initial", "sending", "receiving"}
    /\ ws_pc' = "disconnected"
    /\ UNCHANGED <<last_status, last_progress, current_status, current_progress, ws_sent>>
    /\ UNCHANGED socketFrame

Socket ==
    \/ SocketConnect
    \/ SocketInitialSent
    \/ SocketSent
    \/ SocketReceiveTimeout
    \/ SocketDisconnect

SocketNext == Execute \/ Process \/ StdoutEOF \/ StderrEOF \/ Cancel \/ Socket

SocketSpec == Init /\ [][SocketNext]_vars

\* the engine's coroutines are resumed as in LiveSpec, and so is the handler
\* of the feed: a send completes and the wait for the client times out
LiveSocketSpec ==
    /\ SocketSpec
    /\ WF_vars(Execute)
    /\ WF_vars(Process)
    /\ WF_vars(StdoutEOF)
    /\ WF_vars(StderrEOF)
    /\ WF_vars(SocketInitialSent \/ SocketSent \/ SocketReceiveTimeout)

\* ------------------------------------------------------------------ claims

\* C1: terminal states are absorbing: once status is completed, failed or
\* cancelled, no step of execute(), cancel() or anything else changes it.
C1_TerminalAbsorbing ==
    [][(status \in TerminalStatus) => (status' = status)]_vars

\* C2: after a cancel() invoked during the backoff sleep between two attempts,
\* the status is never processing or failed.
C2_CancelPrecedence ==
    cancel_in_sleep => status \notin {"processing", "failed"}

\* C3: once cancel() has been invoked, no new attempt is prepared and no new
\* transcoder subprocess is spawned.
C3_NoReentryAfterCancel ==
    [][is_cancelled => (attempts' = attempts /\ spawns' = spawns)]_vars

\* C4: cancel() on a task whose status is already terminal leaves status,
\* progress, error_message and completed_at unchanged.
C4_CancelNoOpOnTerminal ==
    [][\A c \in Cancels :
          (CancelInvoke(c) /\ status \in TerminalStatus)
              => UNCHANGED <<status, progress, error_message, completed_at>>]_vars

\* C5: retry_count never exceeds max_retry_count, and a job prepares and spawns
\* at most max_retry_count + 1 attempts.
C5_RetryBound ==
    /\ retry_count <= max_retry_count
    /\ attempts <= max_retry_count + 1
    /\ spawns <= max_retry_count + 1
    /\ failures <= max_retry_count + 1

C5_Witness ==
    /\ retry_count = max_retry_count
    /\ attempts = max_retry_count + 1
    /\ failures = max_retry_count + 1
    /\ status = "failed"

\* C6: if every attempt fails with a retryable category and the job is never
\* cancelled, the job eventually is failed after exactly max_retry_count + 1
\* attempts.
C6_ExhaustedRetries ==
    ([](all_retryable /\ ~is_cancelled))
        => <>(/\ status = "failed"
              /\ attempts = max_retry_count + 1
              /\ failures = max_retry_count + 1)

C6_Witness ==
    /\ all_retryable /\ ~is_cancelled
    /\ status = "failed"
    /\ attempts = max_retry_count + 1
    /\ spawns = max_retry_count + 1

\* C7: an attempt failure classified FILE_ACCESS, CONFIGURATION or UNKNOWN is
\* not retried: the same step makes the job failed without touching
\* retry_count (0 with exactly one attempt when it is the first attempt), and
\* no attempt follows.
C7_NonRetryableShortCircuit ==
    [][/\ (/\ failures' = failures + 1
           /\ _categorizeError(last_failure') \notin RETRYABLE_CATEGORIES)
          => /\ status' = "failed"
             /\ retry_count' = retry_count
             /\ pc' \in {"notify_failed", "done"}
             /\ (attempts = 1 => retry_count' = 0 /\ attempts' = 1)
       /\ (status = "failed" /\ pc \in {"notify_failed", "done"})
          => (attempts' = attempts /\ spawns' = spawns /\ retry_count' = retry_count)]_vars

C7_Witness ==
    /\ status = "failed"
    /\ ~is_cancelled
    /\ failures = 1 /\ attempts = 1 /\ retry_count = 0
    /\ _categorizeError(last_failure) = "FILE_ACCESS"
    /\ last_failure.src = "exit"

\* C8 (as claimed): for a job that reached completed, no write of progress
\* ever lowered it, and the final value is 100.0.
C8_ProgressMonotone ==
    is_finished => (lowered_by = {} /\ progress = PROGRESS_DONE)

\* C8 (amended): for a job that reached completed the final value is 100.0,
\* and progress was lowered only by numeric progress lines of the output: the
\* time-based estimate, the timer, the completion phrase and the exit-code-0
\* path never lower it.
C8_ProgressFinalAndLoweredByLinesOnly ==
    is_finished => (lowered_by \subseteq {"line"} /\ progress = PROGRESS_DONE)

C8_Witness ==
    /\ is_finished
    /\ status = "completed"
    /\ lowered_by = {"line"}
    /\ progress = PROGRESS_DONE

\* C9: status completed implies progress 100.0 and completed_at set, and once
\* the job is completed no reader or timer changes progress.
C9_CompletedState ==
    /\ [](status = "completed" => (progress = PROGRESS_DONE /\ completed_at))
    /\ [][is_finished => (progress' = progress)]_vars

C9_Witness ==
    /\ status = "completed"
    /\ pc = "done"
    /\ progress_init_done
    /\ retry_count > 0

\* C10: status failed implies progress 0.0, completed_at set, and a non-empty
\* error_message equal to the failure text of the most recent attempt.
C10_FailedState ==
    status = "failed" =>
        /\ progress = 0
        /\ completed_at
        /\ error_message # NoMessage
        /\ error_message = last_failure
        /\ error_message.att = attempts

C10_Witness ==
    /\ status = "failed"
    /\ failures = 2
    /\ last_failure.att = 2
    /\ last_failure.src = "exit"
    /\ lowered_by = {"failed"}

\* C18: no encoding_failed notification is emitted for a job on which cancel()
\* has been invoked: once the cancel flag is set, no step adds the
\* notification.
C18_NoFailedNotificationAfterCancel ==
    [][is_cancelled =>
          ("encoding_failed" \in notifications' => "encoding_failed" \in notifications)]_vars

\* C19: a job cancelled while it has no error exposes no error afterwards:
\* the error_message the status query and the feeds read stays empty.
C19_CancelledExposesNoError ==
    [][(is_cancelled /\ error_message = NoMessage) => (error_message' = NoMessage)]_vars

\* C20: whenever execute() has returned, the task's status is terminal.
C20_ExecuteReturnsTerminal ==
    pc = "done" => status \in TerminalStatus

\* the delay the specification gives for the k-th retry of a category
C13_ExpectedDelay(category, k) ==
    LET base == CASE category = "RESOURCE" -> 30
                  [] category = "NETWORK" -> 10
                  [] category = "ENCODER" -> 5
                  [] category = "PROCESS" -> 15
                  [] category = "STREAM_CHANGE" -> 5
                  [] category \in {"VCEENCC_PARAM", "FFMPEG_STREAM"} -> 3
                  [] OTHER -> 10
    IN  Min(base * Pow2(k - 1), 300)

\* C13: the delay slept before the k-th retry is
\* min(base_delay(category) * 2^(k-1), 300); for RESOURCE the first three
\* delays are 30, 60 and 120.
C13_BackoffFormula ==
    p_pc = "slept" =>
        /\ p_delay = C13_ExpectedDelay(p_category, p_retry_count)
        /\ (p_category = "RESOURCE" /\ p_retry_count = 1 => p_delay = 30)
        /\ (p_category = "RESOURCE" /\ p_retry_count = 2 => p_delay = 60)
        /\ (p_category = "RESOURCE" /\ p_retry_count = 3 => p_delay = 120)

C13_Witness ==
    /\ p_pc = "slept"
    /\ p_category = "RESOURCE"
    /\ p_retry_count = 5
    /\ p_delay = 300

\* categories of the taxonomy: ERROR_CATEGORIES and the keys of ERROR_PATTERNS
C14_Categories ==
    {"FILE_ACCESS", "ENCODER", "RESOURCE", "PROCESS", "STREAM_CHANGE",
     "VCEENCC_PARAM", "FFMPEG_STREAM", "CONFIGURATION", "NETWORK", "UNKNOWN"}

\* C14 (first half): the category found for a text is the first one, in table
\* order, a phrase of which occurs in the text whatever its case, and UNKNOWN
\* when there is none.
C14_FirstMatch ==
    p_pc # "failed" =>
        LET hit(i) == PatternPhrases(ERROR_PATTERNS[i]) \cap p_text.phrases # {}
            hits == { i \in 1..Len(ERROR_PATTERNS) : hit(i) }
        IN  IF hits = {} THEN p_category = "UNKNOWN"
            ELSE \E i \in hits : /\ p_category = ERROR_PATTERNS[i]
                                  /\ \A j \in hits : i <= j

\* C14: the classifier returns the first matching category in table order
\* (UNKNOWN when nothing matches), and every category of the taxonomy,
\* CONFIGURATION and NETWORK included, is the result for some text.
C14_ClassifierFirstMatchAndCoverage ==
    p_pc # "failed" =>
        /\ C14_FirstMatch
        /\ \A c \in C14_Categories : \E t \in ErrorTexts : CategorizeText(t) = c

\* C11: tracker balance: however the job ends (success, failure, validation
\* failure, cancel, exception), once execute() has returned the tracker holds
\* what it held before the job started: the job's output path is not registered.
C11_TrackerBalance ==
    pc = "done" => (output_file_path \notin encoding_files /\ encoding_files = {})

\* execute() has returned for a job that was cancelled after it had started a
\* transcoder process (tracker entry added, then removed by cancel() and again
\* by the finally block of execute())
C11_Witness ==
    pc = "done" /\ is_cancelled /\ spawns > 0 /\ output_file_path \notin encoding_files
\* C12: at no time do two tasks with status processing have the same output
\* path, also when the same recording is submitted twice with the same codec.
C12_UniqueProcessingOutputPath ==
    \A t \in JobIds, u \in JobIds :
        (t # u /\ t_status[t] = "processing" /\ t_status[u] = "processing")
            => t_output_file_path[t] # t_output_file_path[u]
\* C17: a task leaves the in-memory registry only through the delete
\* operation (finishing, failing or cancelling a job never removes it), and a
\* delete request for a registered task that is queued or processing is
\* rejected and leaves the registry and the last-broadcast table unchanged.
C17_RegistryRetention ==
    [][\A t \in JobIds :
          /\ (Registered(t) /\ ~Registered(t)')
                => (delete_pc[t] = "db" /\ delete_pc'[t] = "deleted")
          /\ (Registered(t) /\ t_status[t] \in {"queued", "processing"} /\ delete_pc[t] # "db")
                => /\ delete_pc'[t] # "db"
                   /\ (delete_pc'[t] # delete_pc[t]
                         => /\ delete_pc'[t] = "rejected"
                            /\ UNCHANGED <<_running_tasks, _last_broadcast_states>>)]_vars

\* one task was deleted after it had ended, and the delete request for another,
\* still processing and already broadcast, was rejected: it is still registered
C17_Witness ==
    \E t \in JobIds, u \in JobIds :
        /\ delete_pc[t] = "rejected" /\ t_status[t] = "processing" /\ Registered(t)
        /\ _last_broadcast_states[t] # NoState
        /\ delete_pc[u] = "deleted" /\ ~Registered(u) /\ t_pc[u] = "returned"
\* ---- C15: the diffing of the multiplexed feed
\* the tasks the broadcaster still has to look at in this round
C15_Pending ==
    IF broadcast_task = "lookup" THEN tasks_snapshot
    ELSE IF broadcast_task = "waiting" THEN _running_tasks
    ELSE <<>>

\* a step of the broadcaster that ends at the lookup of a changed task or at
\* the end of a round
C15_BroadcasterStep ==
    \/ broadcast_task' = "lookup" /\ b_current' # b_current
    \/ broadcast_task = "lookup" /\ broadcast_task' = "waiting"

\* the tasks the step has looked at
C15_Considered ==
    { C15_Pending[i] : i \in 1..Len(C15_Pending) }
        \ { tasks_snapshot'[i] : i \in 1..Len(tasks_snapshot') }

\* the step has put task t into the batch of this round
C15_Picked(t) ==
    broadcast_task' = "lookup" /\ b_current' # b_current /\ b_current'.task_id = t

C15_Distance(t) ==
    IF t_progress[t] >= 10 * _last_broadcast_states[t].progress
    THEN t_progress[t] - 10 * _last_broadcast_states[t].progress
    ELSE 10 * _last_broadcast_states[t].progress - t_progress[t]

\* a round in which no task was put into the batch sends nothing, and a batch
\* that is sent holds every task put into it
C15_EmitRule ==
    /\ broadcast_task = "waiting" => UNCHANGED <<sent_batch, batches_sent>>
    /\ broadcast_task = "lookup" /\ b_current' # b_current
          => b_current \in tasks_to_broadcast' \/ b_current.task_id \in sent_batch'
    /\ broadcast_task = "lookup" /\ broadcast_task' = "waiting"
          => /\ batches_sent' # batches_sent
             /\ sent_batch' = { info.task_id : info \in tasks_to_broadcast } \cup {b_current.task_id}

\* C15 (as stated): in one broadcast tick a task whose status is unchanged and
\* whose progress moved by less than 0.1 since its last broadcast is not in
\* the batch, a task whose progress moved by 0.1 or more or whose status
\* changed is, and a tick with no changed task emits no batch.
C15_DiffingByDistance ==
    [][/\ C15_BroadcasterStep =>
            \A t \in C15_Considered :
                /\ ( /\ _last_broadcast_states[t] # NoState
                     /\ _last_broadcast_states[t].status = t_status[t]
                     /\ C15_Distance(t) < 10 ) => ~C15_Picked(t)
                /\ ( /\ _last_broadcast_states[t] # NoState
                     /\ \/ _last_broadcast_states[t].status # t_status[t]
                        \/ C15_Distance(t) >= 10 ) => C15_Picked(t)
       /\ C15_EmitRule]_vars

\* C15 (amended): in one broadcast tick a task is in the batch exactly when it
\* was never broadcast, or its status differs from the status last broadcast,
\* or its progress rounded to one decimal differs from the rounded progress
\* last broadcast; so a move of 0.1 or more and a status change are always in
\* the batch, but so is a smaller move that crosses a rounding boundary; a
\* tick with no changed task emits no batch.
C15_DiffingByRounding ==
    [][/\ C15_BroadcasterStep =>
            \A t \in C15_Considered :
                /\ C15_Picked(t) <=>
                      \/ _last_broadcast_states[t] = NoState
                      \/ _last_broadcast_states[t].status # t_status[t]
                      \/ _last_broadcast_states[t].progress # Round1(t_progress[t])
                /\ C15_Picked(t) =>
                      /\ b_current'.status = t_status[t]
                      /\ b_current'.progress = Round1(t_progress[t])
                /\ ( /\ _last_broadcast_states[t] # NoState
                     /\ \/ _last_broadcast_states[t].status # t_status[t]
                        \/ C15_Distance(t) >= 10 ) => C15_Picked(t)
       /\ C15_EmitRule]_vars

\* a task broadcast as processing at 10.0 (progress 10.04) has moved to 10.06:
\* the broadcaster has put it into the batch as 10.1
C15_Witness ==
    /\ broadcast_task = "lookup"
    /\ b_current.status = "processing" /\ b_current.progress = 101
    /\ t_progress[b_current.task_id] = 1006
    /\ _last_broadcast_states[b_current.task_id] = [status |-> "processing", progress |-> 100]
\* ---- C16: the per-task feed
C16_Connected == ws_pc \in {"initial", "sending", "receiving"}

\* the handler closes the feed only after a message with a terminal status
C16_TerminalSentBeforeClose ==
    [](ws_pc = "closed" => ws_sent \cap TerminalStatus # {})

\* the handler never closes the feed while the task is queued or processing
C16_NoCloseWhileActive ==
    [][(ws_pc # "closed" /\ ws_pc' = "closed") => status' \notin {"queued", "processing"}]_vars

\* a terminal status the task takes while a subscriber is connected is
\* delivered, and the feed is closed, unless the client goes away
C16_TerminalDelivered ==
    \A v \in TerminalStatus :
        (status = v /\ C16_Connected) ~> ((v \in ws_sent /\ ws_pc = "closed") \/ ws_pc = "disconnected")

\* C16: if the task reaches a terminal state while a subscriber of its
\* per-task feed stays connected, the feed eventually delivers a message with
\* that terminal status and then closes; it never closes, other than on client
\* disconnect, while the task's status is queued or processing.
C16_PerTaskFeed ==
    /\ C16_TerminalSentBeforeClose
    /\ C16_NoCloseWhileActive
    /\ C16_TerminalDelivered
\* C21: whenever a transcoder subprocess of the job is alive or its
\* post-processing is running, the tracker reports the job's output path as
\* being encoded; cancel() of the job does not remove the entry earlier.
C21_TrackerCoverage ==
    (Alive \/ pc = "post") => isEncodingFile(encoding_files, output_file_path)
\* kill() is only ever sent to a process that was asked to terminate before
C22_GracefulFirst ==
    [][(proc' = "killed" /\ proc # "killed") => proc = "terminating"]_vars

\* C22: when cancel() has returned, no transcoder subprocess of the job is
\* running, wherever in execute() the cancel arrived (also while the process
\* was being spawned); the process is asked to terminate first and is killed
\* only after the wait for its end timed out.
C22_CancelStopsChild ==
    /\ [](\A c \in Cancels : cancel_pc[c] = "done" => ~Alive)
    /\ C22_GracefulFirst
\* C23: an exception raised while an attempt runs (here: while the command is
\* built and the process spawned) is caught inside execute(), classified as
\* UNKNOWN and not retried: the job goes to failed.
C23_UnexpectedNotRetried ==
    [][(pc = "spawn" /\ pc' \notin {"spawn", "wait"})
          => /\ _categorizeError(error_message') = "UNKNOWN"
             /\ retry_count' = retry_count
             /\ status' = "failed"]_vars
\* C27: attempts of one job are strictly sequential: a transcoder subprocess
\* is alive only while execute() waits for it, a process is spawned and an
\* attempt is started only when no subprocess of the task is alive, also when
\* cancel() interleaves with the retry loop.
C27_AttemptsSequential ==
    /\ [](Alive => pc = "wait")
    /\ [][(proc' = "running" /\ proc # "running") => ~Alive]_vars
    /\ [][(attempts' > attempts) => (~Alive /\ ~Alive')]_vars

\* the process of a later attempt is alive, a cancel() having arrived during
\* the backoff sleep before it
C27_Witness ==
    spawns >= 2 /\ attempts >= 2 /\ Alive /\ cancel_in_sleep

\* a reader or the progress timer of the current process can still run
ReaderOrTimerActive ==
    \/ stdout_task = "running"
    \/ stderr_task = "running"
    \/ progress_update_task \in {"created", "sleeping"}

\* the part of C26 that concerns the normal end of an attempt: when the gather
\* of _executeEncoding has returned, the readers and the timer have ended
C26_NormalEndJoinsReaders ==
    [][(pc = "gather" /\ pc' # "gather") => ~ReaderOrTimerActive']_vars

\* C26: once the end of the subprocess has been waited for, on the normal end
\* of an attempt (wait, then gather) and in cancel(), no stdout/stderr reader
\* and no progress timer of that process is still active.
C26_NoReaderLeak ==
    /\ C26_NormalEndJoinsReaders
    /\ [][\A c \in Cancels :
             (cancel_pc[c] \in {"wait_term", "wait_kill"} /\ cancel_pc'[c] = "done")
                 => ~ReaderOrTimerActive']_vars

\* --------------------------------------------------------- post-processing
\* One attempt whose transcoder exited with code 0, from the call of
\* _processEncodedFile to the return of execute() or to the retry decision.

\* the text _executeEncoding stores when _processEncodedFile returned False
POST_PROCESSING_FAILED == [phrases |-> {"post-processing failed"}, case |-> "mixed"]

\* the text logged when the output file does not exist
OUTPUT_FILE_NOT_FOUND == [phrases |-> {"output file not found"}, case |-> "mixed"]

\* errors a step of post-processing can raise (database, file system)
PostErrors == { t \in ErrorTexts : Cardinality(t.phrases) = 1 /\ t.case = "mixed" }

PostInit ==
    /\ EngineInit
    /\ PolicyIdle
    /\ RouterIdle
    /\ SocketIdle
    /\ post_pc = "record"
    /\ delete_original \in BOOLEAN
    /\ original_exists = TRUE
    /\ encoded_moved = FALSE
    /\ db_updated = FALSE
    /\ post_error = NoText
    /\ post_error_message = NoText
    /\ post_status = "processing"
    /\ post_retry_count \in 0..max_retry_count
    /\ analysis_failed = FALSE

\* _processEncodedFile returned False after logging e: _executeEncoding stores
\* its fixed text and returns False, execute() runs _handleEncodingFailure and
\* _shouldRetry, then sleeps for the retry or leaves the loop as failed
PostProcessFailed(e) ==
    /\ post_error' = e
    /\ post_error_message' = POST_PROCESSING_FAILED
    /\ IF _isRetryable(CategorizeText(POST_PROCESSING_FAILED), post_retry_count,
                       max_retry_count)
       THEN /\ post_retry_count' = post_retry_count + 1
            /\ post_pc' = "sleep"
            /\ UNCHANGED post_status
       ELSE /\ post_status' = "failed"
            /\ post_pc' = "failed"
            /\ UNCHANGED post_retry_count

\* the condition under which _processEncodedFile calls _deleteOriginalFile,
\* success being the result of _updateDatabaseSimple
DeleteOriginalNow_Unconditional(success) == delete_original

DeleteOriginalNow(success) == success /\ delete_original

\* RecordedVideo.get returned the recording and the output file exists:
\* _waitForFileCompletion starts
RecordFound ==
    /\ post_pc = "record"
    /\ post_pc' = "move"
    /\ UNCHANGED <<delete_original, original_exists, encoded_moved, db_updated,
                   post_error, post_error_message, post_status, post_retry_count,
                   analysis_failed>>
    /\ UNCHANGED postFrame

\* RecordedVideo.get raised
RecordNotFound(e) ==
    /\ post_pc = "record"
    /\ PostProcessFailed(e)
    /\ UNCHANGED <<delete_original, original_exists, encoded_moved, db_updated,
                   analysis_failed>>
    /\ UNCHANGED postFrame

\* the output file does not exist
OutputMissing ==
    /\ post_pc = "record"
    /\ PostProcessFailed(OUTPUT_FILE_NOT_FOUND)
    /\ UNCHANGED <<delete_original, original_exists, encoded_moved, db_updated,
                   analysis_failed>>
    /\ UNCHANGED postFrame

\* _moveEncodedFileToDestination returned a path: _updateDatabaseSimple sets
\* the fields of the row and awaits its save()
MoveOk ==
    /\ post_pc = "move"
    /\ encoded_moved' = TRUE
    /\ post_pc' = "db"
    /\ UNCHANGED <<delete_original, original_exists, db_updated, post_error,
                   post_error_message, post_status, post_retry_count,
                   analysis_failed>>
    /\ UNCHANGED postFrame

\* _moveEncodedFileToDestination returned None
MoveFailed(e) ==
    /\ post_pc = "move"
    /\ PostProcessFailed(e)
    /\ UNCHANGED <<delete_original, original_exists, encoded_moved, db_updated,
                   analysis_failed>>
    /\ UNCHANGED postFrame

\* _deleteOriginalFile when it is called: os.remove succeeds or raises
\* (removed), an exception being logged only
_deleteOriginalFile(called, removed) ==
    original_exists' = IF called /\ removed THEN FALSE ELSE original_exists

\* save() of the row succeeded: the original is deleted if requested,
\* _processEncodedFile returns True, execute() marks the task completed and
\* _updateEncodedFlag awaits the row
DbSaved(removed) ==
    /\ post_pc = "db"
    /\ db_updated' = TRUE
    /\ _deleteOriginalFile(DeleteOriginalNow(TRUE), removed)
    /\ post_status' = "completed"
    /\ post_pc' = "flag"
    /\ UNCHANGED <<delete_original, encoded_moved, post_error, post_error_message,
                   post_retry_count, analysis_failed>>
    /\ UNCHANGED postFrame

\* save() of the row raised: _updateDatabaseSimple returns False
DbFailed(e, removed) ==
    /\ post_pc = "db"
    /\ _deleteOriginalFile(DeleteOriginalNow(FALSE), removed)
    /\ PostProcessFailed(e)
    /\ UNCHANGED <<delete_original, encoded_moved, db_updated, analysis_failed>>
    /\ UNCHANGED postFrame

\* _updateEncodedFlag: the row was read and saved, KeyFrameAnalyzer starts
FlagSaved ==
    /\ post_pc = "flag"
    /\ post_pc' = "keyframe"
    /\ UNCHANGED <<delete_original, original_exists, encoded_moved, db_updated,
                   post_error, post_error_message, post_status, post_retry_count,
                   analysis_failed>>
    /\ UNCHANGED postFrame

\* _updateEncodedFlag: reading or saving the row raised; the outer handler of
\* the function logs it and the function returns
FlagSaveFailed(e) ==
    /\ post_pc = "flag"
    /\ post_error' = e
    /\ post_pc' = "notify"
    /\ UNCHANGED <<delete_original, original_exists, encoded_moved, db_updated,
                   post_error_message, post_status, post_retry_count,
                   analysis_failed>>
    /\ UNCHANGED postFrame

\* KeyFrameAnalyzer.analyzeAndSave returned or raised (logged as a warning):
\* CMSectionsDetector starts
KeyFrameAnalysisDone(ok) ==
    /\ post_pc = "keyframe"
    /\ analysis_failed' = (analysis_failed \/ ~ok)
    /\ post_pc' = "cm"
    /\ UNCHANGED <<delete_original, original_exists, encoded_moved, db_updated,
                   post_error, post_error_message, post_status, post_retry_count>>
    /\ UNCHANGED postFrame

\* CMSectionsDetector.detectAndSave returned or raised (logged as a warning):
\* _updateEncodedFlag returns, the completion notification is sent
CMDetectionDone(ok) ==
    /\ post_pc = "cm"
    /\ analysis_failed' = (analysis_failed \/ ~ok)
    /\ post_pc' = "notify"
    /\ UNCHANGED <<delete_original, original_exists, encoded_moved, db_updated,
                   post_error, post_error_message, post_status, post_retry_count>>
    /\ UNCHANGED postFrame

\* the notification was broadcast: execute() returns True
PostNotifyDone ==
    /\ post_pc = "notify"
    /\ post_pc' = "returned"
    /\ UNCHANGED <<delete_original, original_exists, encoded_moved, db_updated,
                   post_error, post_error_message, post_status, post_retry_count,
                   analysis_failed>>
    /\ UNCHANGED postFrame

PostNext ==
    \/ RecordFound
    \/ \E e \in PostErrors : RecordNotFound(e)
    \/ OutputMissing
    \/ MoveOk
    \/ \E e \in PostErrors : MoveFailed(e)
    \/ \E removed \in BOOLEAN : DbSaved(removed)
    \/ \E e \in PostErrors, removed \in BOOLEAN : DbFailed(e, removed)
    \/ FlagSaved
    \/ \E e \in PostErrors : FlagSaveFailed(e)
    \/ \E ok \in BOOLEAN : KeyFrameAnalysisDone(ok)
    \/ \E ok \in BOOLEAN : CMDetectionDone(ok)
    \/ PostNotifyDone

PostSpec == PostInit /\ [][PostNext]_vars

\* the part of C24 that concerns the outcome of the attempt: it is a failure
\* and does not leave the task completed
C24_CountsAsFailure ==
    [][(post_pc \in {"record", "move", "db"} /\ post_pc' \in {"sleep", "failed"})
          => (post_status' # "completed" /\ post_error' # NoText)]_vars

\* C24: when the transcoder exited with code 0 and post-processing fails, the
\* attempt is a failure and the retry decision follows the category of the
\* post-processing error: the attempt is retried exactly when that category
\* is retryable and the retry limit is not reached.
C24_PostFailureRetriedByCategory ==
    /\ C24_CountsAsFailure
    /\ [][(post_pc \in {"record", "move", "db"} /\ post_pc' \in {"sleep", "failed"})
            => (post_pc' = "sleep" <=>
                  _isRetryable(CategorizeText(post_error'), post_retry_count,
                               max_retry_count))]_vars

\* C25: when the keyframe or commercial-section analysis that follows a
\* successful transcode has failed, the attempt is a failure: the task is not
\* left completed by it.
C25_AnalysisFailureEscalated ==
    (analysis_failed /\ post_pc \in {"notify", "returned"}) => post_status # "completed"

\* C30: the original file is gone only if the job asked for delete_original
\* and the encoded file was moved and the recording's row saved before; when
\* post-processing failed, at the move or at the row, the original is still
\* in place.
C30_OriginalDeletedLast ==
    /\ ~original_exists => (delete_original /\ encoded_moved /\ db_updated)
    /\ post_pc = "failed" => original_exists

\* the original was deleted on request after the move and the row update
C30_Witness ==
    ~original_exists /\ delete_original /\ db_updated /\ post_status = "completed"

\* the states a task can be broadcast in
TaskStatuses == {"queued", "processing"} \cup TerminalStatus

\* the status s of the registered task t has not been broadcast yet while a
\* subscriber is connected
StatusChangePending(t, s) ==
    /\ active_connections > 0
    /\ Registered(t)
    /\ t_status[t] = s
    /\ _last_broadcast_states[t].status # s

\* the status s of task t went out with the last batch, or the status changed
\* again, or the subscriber left
StatusChangeSent(t, s) ==
    \/ t \in sent_batch /\ _last_broadcast_states[t].status = s
    \/ t_status[t] # s
    \/ active_connections = 0

\* C28: the broadcast loop stops only when it finds no subscriber; whenever a
\* subscriber is connected a broadcast loop exists (running, or created by
\* that subscription); so a status of a registered task that has not been
\* broadcast yet is eventually sent to a subscriber that stays connected.
C28_BroadcasterLifecycle ==
    /\ [](active_connections > 0 => broadcast_task # "none")
    /\ [][(broadcast_task # "none" /\ broadcast_task' = "none")
            => active_connections = 0]_vars
    /\ \A t \in JobIds, s \in TaskStatuses :
           StatusChangePending(t, s) ~> StatusChangeSent(t, s)

\* the final status of a task has been sent to the connected subscriber and
\* the loop sleeps until its next round
C28_Witness ==
    /\ active_connections > 0
    /\ broadcast_task = "waiting"
    /\ \E t \in JobIds :
          /\ t \in sent_batch
          /\ t_status[t] = "completed"
          /\ _last_broadcast_states[t].status = "completed"

\* C29: at most one broadcast loop exists at any time, whatever the
\* interleaving of connects, disconnects, registrations and loop rounds.
C29_SingleBroadcastLoop ==
    broadcast_loops <= 1 /\ (broadcast_loops = 1 <=> broadcast_task # "none")

\* the subscriber has left while the loop is in the middle of a round over
\* two registered tasks: the loop still exists when the next subscriber comes
C29_Witness ==
    /\ broadcast_loops = 1
    /\ broadcast_task = "lookup"
    /\ active_connections = 0
    /\ Len(_running_tasks) = 2
====
